---- MODULE Spec2Model ----
(***************************************************************************)
(* A model of api.py, the read-only client of the iRacing memory mapped    *)
(* file.  The region is a sequence of bytes (0..255); Python index p is    *)
(* element p + 1 of the sequence.  Python strings are sequences of bytes.  *)
(***************************************************************************)
EXTENDS Integers, Sequences, FiniteSets, TLC

(***************************************************************************)
(* Bounds of the synthetic regions and of the producer's activity.         *)
(***************************************************************************)
MaxVars == 2
MaxPad == 1
MaxDocLines == 1
MaxWrites == 2

(***************************************************************************)
(* Module constants of api.py.                                             *)
(***************************************************************************)
MEMMAPFILE_START == 1
HEADER_LEN == 144
TELEM_NAME_OFFSET == 16
TELEM_NAME_MAX_LEN == 32
VAL_BUFFERS == 3
TYPEMAP == <<"c", "?", "i", "I", "f", "d">>

(***************************************************************************)
(* Python values.  None is the value of a cache that was never filled and  *)
(* the result of a function that falls off its end.                        *)
(***************************************************************************)
None == [isNone |-> TRUE]
Some(x) == [isNone |-> FALSE, v |-> x]

NoneVal == [t |-> "None"]

Min(a, b) == IF a < b THEN a ELSE b
Max(a, b) == IF a > b THEN a ELSE b

(***************************************************************************)
(* Slicing of a str or mmap object: a negative bound counts from the end,  *)
(* and both bounds are clamped to the object; nothing is ever raised.      *)
(***************************************************************************)
ClampIndex(n, k) == IF k < 0 THEN Max(k + n, 0) ELSE Min(k, n)

PySlice(s, lo, hi) ==
    LET a == ClampIndex(Len(s), lo)
        b == ClampIndex(Len(s), hi)
    IN  IF b <= a THEN <<>> ELSE SubSeq(s, a + 1, b)

(* str.replace('\x00', '') *)
NotNul(b) == b # 0
RemoveNul(s) == SelectSeq(s, NotNul)

(* str.strip(): whitespace is \t \n \v \f \r and the space *)
IsSpace(b) == b \in {9, 10, 11, 12, 13, 32}

RECURSIVE LStrip(_)
LStrip(s) ==
    IF s # <<>> /\ IsSpace(Head(s)) THEN LStrip(Tail(s)) ELSE s

RECURSIVE RStrip(_)
RStrip(s) ==
    IF s # <<>> /\ IsSpace(s[Len(s)]) THEN RStrip(SubSeq(s, 1, Len(s) - 1)) ELSE s

Strip(s) == RStrip(LStrip(s))

(* mmap.readline() at file position pos: up to and including the next \n, *)
(* or up to the end of the map; the empty string at the end of the map.   *)
LineEnd(m, pos) ==
    CHOOSE e \in (pos + 1)..Max(pos + 1, Len(m) + 1) :
        /\ e > Len(m) \/ m[e] = 10
        /\ \A q \in (pos + 1)..(e - 1) : m[q] # 10

ReadLine(m, pos) == PySlice(m, pos, Min(LineEnd(m, pos), Len(m)))

(* mmap.read(n) at file position pos: at most n bytes *)
Read(m, pos, n) == PySlice(m, pos, Min(pos + n, Len(m)))

(***************************************************************************)
(* struct: native sizes and decoding of the six formats of TYPEMAP.        *)
(***************************************************************************)
calcsize(fmt) ==
    CASE fmt = "c" -> 1
      [] fmt = "?" -> 1
      [] fmt = "i" -> 4
      [] fmt = "I" -> 4
      [] fmt = "f" -> 4
      [] fmt = "d" -> 8

SignedByte(b) == IF b >= 128 THEN b - 256 ELSE b

(* struct.unpack(fmt, data)[0] for len(data) = calcsize(fmt).  A float is *)
(* the sign, biased exponent and fraction fields of its IEEE-754 format.  *)
Unpack(fmt, data) ==
    CASE fmt = "c" -> [t |-> "str", s |-> <<data[1]>>]
      [] fmt = "?" -> [t |-> "bool", b |-> (data[1] # 0)]
      [] fmt = "i" -> [t |-> "int",
                       i |-> data[1] + 256 * data[2] + 65536 * data[3]
                             + 16777216 * SignedByte(data[4])]
      [] fmt = "I" -> [t |-> "int",
                       i |-> data[1] + 256 * data[2] + 65536 * data[3]
                             + 16777216 * data[4]]
      [] fmt = "f" -> [t |-> "float",
                       sign |-> data[4] \div 128,
                       exp |-> (data[4] % 128) * 2 + data[3] \div 128,
                       frac |-> <<(data[3] % 128) * 65536 + data[2] * 256 + data[1]>>]
      [] fmt = "d" -> [t |-> "float",
                       sign |-> data[8] \div 128,
                       exp |-> (data[8] % 128) * 16 + data[7] \div 16,
                       frac |-> <<(data[7] % 16) * 65536 + data[6] * 256 + data[5],
                                  data[4] * 256 + data[3],
                                  data[2] * 256 + data[1]>>]

(* API._get: a short slice makes struct.unpack raise struct.error *)
get(m, position, type) ==
    LET size == calcsize(type)
        data == PySlice(m, position, position + size)
    IN  IF Len(data) # size THEN [st |-> "struct.error"]
        ELSE [st |-> "ok", v |-> Unpack(type, data)]

(***************************************************************************)
(* API._yaml_end.  The loop leaves only at a line whose stripped content   *)
(* is '...'; at the end of the map readline() returns '' for ever, the     *)
(* loop state no longer changes and the call never returns ("hang").       *)
(* Operators named ...With take the value of a sub-expression of the       *)
(* method as their last parameters.                                        *)
(***************************************************************************)
Dots == <<46, 46, 46>>

RECURSIVE YamlEndLoop(_, _, _)
YamlEndLoopWith(m, pos, offset, line) ==
    IF Strip(line) = Dots THEN [st |-> "ok", v |-> offset]
    ELSE IF line = <<>> THEN [st |-> "hang"]
         ELSE YamlEndLoop(m, pos + Len(line), offset + Len(line))

YamlEndLoop(m, pos, offset) == YamlEndLoopWith(m, pos, offset, ReadLine(m, pos))

YamlEndReturn(headers, loop) ==
    IF loop.st # "ok" THEN loop
    ELSE [st |-> "ok", v |-> loop.v + Len(headers) + 4]

YamlEndWith(m, headers) == YamlEndReturn(headers, YamlEndLoop(m, Len(headers), 0))

yaml_end(m) == YamlEndWith(m, ReadLine(m, 0))

(***************************************************************************)
(* API._telemetry_header_start: seek to the end of the yaml, read single  *)
(* bytes while they are '\x00', return the position of the last read.      *)
(***************************************************************************)
SkipNul(m, pos) ==
    LET stop == CHOOSE e \in pos..Max(pos, Len(m)) :
                    /\ e >= Len(m) \/ Strip(Read(m, e, 1)) # <<0>>
                    /\ \A q \in pos..(e - 1) : Strip(Read(m, q, 1)) = <<0>>
    IN  stop + Len(Read(m, stop, 1)) - 1

HeaderStartWith(m, ye) ==
    IF ye.st # "ok" THEN ye
    ELSE IF ye.v > Len(m) THEN [st |-> "ValueError"]
         ELSE [st |-> "ok", v |-> SkipNul(m, ye.v)]

telemetry_header_start(m) == HeaderStartWith(m, yaml_end(m))

(* the loop of API._telemetry_names, from file position pos *)
RECURSIVE ReadNames(_, _)
ReadNamesWith(m, next, name) ==
    IF name = <<>> THEN <<>>
    ELSE <<name>> \o ReadNames(m, next)

ReadNames(m, pos) ==
    ReadNamesWith(m, pos + Len(Read(m, pos, HEADER_LEN)),
                  RemoveNul(PySlice(Read(m, pos, HEADER_LEN), TELEM_NAME_OFFSET,
                                    TELEM_NAME_OFFSET + TELEM_NAME_MAX_LEN)))

(***************************************************************************)
(* The cached properties.  self is the record of the private fields of    *)
(* the API object; every property returns the outcome st ("ok", "hang" or *)
(* the exception raised), the fields as the access leaves them and, when  *)
(* st = "ok", the value v.  A cache is set to its empty value before it   *)
(* is filled, and keeps what it holds when the filling raises.            *)
(***************************************************************************)
Ok(self, x) == [st |-> "ok", self |-> self, v |-> x]
Raise(self, e) == [st |-> e, self |-> self]

(* a property that fills its cache at every access *)
IsCachedNever(cache) == FALSE

(* the test "self.__x is None" that guards the filling of every cache *)
IsCached(cache) == ~cache.isNone

(* API._telemetry_names *)
TelemetryNamesFill(self, names) ==
    Ok([self EXCEPT !.__telemetry_names = Some(names)], names)

TelemetryNamesWith(self, m, hs) ==
    IF hs.st # "ok" THEN Raise([self EXCEPT !.__telemetry_names = Some(<<>>)], hs.st)
    ELSE IF hs.v < 0
         THEN Raise([self EXCEPT !.__telemetry_names = Some(<<>>)], "ValueError")
         ELSE TelemetryNamesFill(self, ReadNames(m, hs.v))

telemetry_names(self, m) ==
    IF IsCached(self.__telemetry_names) THEN Ok(self, self.__telemetry_names.v)
    ELSE TelemetryNamesWith(self, m, telemetry_header_start(m))

(* the loop of API._var_types from the i-th name on; d is the dict so far, *)
(* hs the value of _telemetry_header_start, the same at every turn         *)
RECURSIVE VarTypesLoop(_, _, _, _, _)
VarTypesLoopWith(m, hs, names, i, d, code) ==
    IF code.st # "ok" THEN [st |-> code.st, d |-> d]
    ELSE IF code.v.i >= Len(TYPEMAP) \/ code.v.i < -Len(TYPEMAP)
         THEN [st |-> "IndexError", d |-> d]
         ELSE VarTypesLoop(m, hs, names, i + 1,
                           (names[i] :> TYPEMAP[(IF code.v.i < 0
                                                 THEN code.v.i + Len(TYPEMAP)
                                                 ELSE code.v.i) + 1]) @@ d)

VarTypesLoop(m, hs, names, i, d) ==
    IF i > Len(names) THEN [st |-> "ok", d |-> d]
    ELSE IF hs.st # "ok" THEN [st |-> hs.st, d |-> d]
         ELSE VarTypesLoopWith(m, hs, names, i, d,
                               get(m, hs.v + (i - 1) * HEADER_LEN, "i"))

(* API._var_types *)
VarTypesFill(self, loop) ==
    IF loop.st # "ok" THEN Raise([self EXCEPT !.__var_types = Some(loop.d)], loop.st)
    ELSE Ok([self EXCEPT !.__var_types = Some(loop.d)], loop.d)

VarTypesWith(m, tn) ==
    IF tn.st # "ok" THEN tn
    ELSE VarTypesFill(tn.self, VarTypesLoop(m, telemetry_header_start(m), tn.v, 1, <<>>))

var_types(self, m) ==
    IF IsCached(self.__var_types) THEN Ok(self, self.__var_types.v)
    ELSE VarTypesWith(m, telemetry_names([self EXCEPT !.__var_types = Some(<<>>)], m))

(* API._sizes *)
SizesWith(vt) ==
    IF vt.st # "ok" THEN vt
    ELSE Ok([vt.self EXCEPT !.__sizes =
                 Some([key \in DOMAIN vt.v |-> calcsize(vt.v[key])])],
            [key \in DOMAIN vt.v |-> calcsize(vt.v[key])])

sizes(self, m) ==
    IF IsCached(self.__sizes) THEN Ok(self, self.__sizes.v)
    ELSE SizesWith(var_types([self EXCEPT !.__sizes = Some(<<>>)], m))

(* the list comprehension of API._buffer_offsets, entries i.. *)
RECURSIVE BufferOffsetsLoop(_, _)
BufferOffsetsLoopWith(x, rest) ==
    IF x.st # "ok" THEN [st |-> x.st]
    ELSE IF rest.st # "ok" THEN rest
         ELSE [st |-> "ok", v |-> <<x.v.i>> \o rest.v]

BufferOffsetsLoop(m, i) ==
    IF i >= VAL_BUFFERS THEN [st |-> "ok", v |-> <<>>]
    ELSE BufferOffsetsLoopWith(get(m, 52 + (i * 16), "i"), BufferOffsetsLoop(m, i + 1))

(* API._buffer_offsets *)
BufferOffsetsWith(self, loop) ==
    IF loop.st # "ok" THEN Raise(self, loop.st)
    ELSE Ok([self EXCEPT !.__buffer_offsets = Some(loop.v)], loop.v)

buffer_offsets(self, m) ==
    IF IsCached(self.__buffer_offsets) THEN Ok(self, self.__buffer_offsets.v)
    ELSE BufferOffsetsWith(self, BufferOffsetsLoop(m, 0))

(* the loop of API._var_offsets from the i-th name on *)
RECURSIVE VarOffsetsLoop(_, _, _, _, _)
VarOffsetsLoopWith(m, offsets_seek, names, i, d, offset) ==
    IF offset.st # "ok" THEN [st |-> offset.st, d |-> d]
    ELSE VarOffsetsLoop(m, offsets_seek, names, i + 1, (names[i] :> offset.v.i) @@ d)

VarOffsetsLoop(m, offsets_seek, names, i, d) ==
    IF i > Len(names) THEN [st |-> "ok", d |-> d]
    ELSE VarOffsetsLoopWith(m, offsets_seek, names, i, d,
                            get(m, offsets_seek + ((i - 1) * HEADER_LEN) + 4, "i"))

(* API._var_offsets *)
VarOffsetsFill(self, loop) ==
    IF loop.st # "ok" THEN Raise([self EXCEPT !.__var_offsets = Some(loop.d)], loop.st)
    ELSE Ok([self EXCEPT !.__var_offsets = Some(loop.d)], loop.d)

VarOffsetsNames(m, offsets_seek, tn) ==
    IF tn.st # "ok" THEN tn
    ELSE VarOffsetsFill(tn.self, VarOffsetsLoop(m, offsets_seek.v.i, tn.v, 1, <<>>))

VarOffsetsWith(self, m, offsets_seek) ==
    IF offsets_seek.st # "ok" THEN Raise(self, offsets_seek.st)
    ELSE VarOffsetsNames(m, offsets_seek, telemetry_names(self, m))

var_offsets(self, m) ==
    IF IsCached(self.__var_offsets) THEN Ok(self, self.__var_offsets.v)
    ELSE VarOffsetsWith([self EXCEPT !.__var_offsets = Some(<<>>)], m, get(m, 28, "i"))

(***************************************************************************)
(* API.telemetry.                                                          *)
(***************************************************************************)
(* a loop that decodes the first slice whatever it holds *)
IsValidAlways(data) == TRUE

(* len(data.replace('\x00','')) != 0 *)
IsValid(data) == Len(RemoveNul(data)) # 0

(* a loop that looks at the first buffer only *)
BufferOrderFirstOnly(n) == [i \in 1..n |-> 1]

(* the order in which the for loop visits the entries of _buffer_offsets *)
BufferOrder(n) == [i \in 1..n |-> i]

(* return struct.unpack(self._var_types[key], data)[0] *)
TelemetryUnpack(key, data, vt) ==
    IF vt.st # "ok" THEN vt
    ELSE IF key \notin DOMAIN vt.v THEN Raise(vt.self, "KeyError")
    ELSE IF Len(data) # calcsize(vt.v[key]) THEN Raise(vt.self, "struct.error")
    ELSE Ok(vt.self, Unpack(vt.v[key], data))

(* the body of the for loop, from the i-th visited buffer on *)
RECURSIVE TelemetryLoop(_, _, _, _, _, _)
TelemetryLoopData(self, m, key, val_o, bufs, i, data) ==
    IF IsValid(data) THEN TelemetryUnpack(key, data, var_types(self, m))
    ELSE TelemetryLoop(self, m, key, val_o, bufs, i + 1)

TelemetryLoopWith(m, key, val_o, bufs, i, buf_o, sz) ==
    IF sz.st # "ok" THEN sz
    ELSE IF key \notin DOMAIN sz.v THEN Raise(sz.self, "KeyError")
    ELSE TelemetryLoopData(sz.self, m, key, val_o, bufs, i,
                           PySlice(m, val_o + buf_o, val_o + buf_o + sz.v[key]))

TelemetryLoop(self, m, key, val_o, bufs, i) ==
    IF i > Len(bufs) THEN Ok(self, NoneVal)
    ELSE TelemetryLoopWith(m, key, val_o, bufs, i,
                           bufs[BufferOrder(Len(bufs))[i]], sizes(self, m))

TelemetryBuffers(m, key, val_o, bo) ==
    IF bo.st # "ok" THEN bo
    ELSE TelemetryLoop(bo.self, m, key, val_o, bo.v, 1)

TelemetryWith(m, key, vo) ==
    IF vo.st # "ok" THEN vo
    ELSE IF key \notin DOMAIN vo.v THEN Raise(vo.self, "KeyError")
    ELSE TelemetryBuffers(m, key, vo.v[key], buffer_offsets(vo.self, m))

telemetry(self, m, key) == TelemetryWith(m, key, var_offsets(self, m))

(***************************************************************************)
(* API._yaml_dict and API.__getitem__.  The parse of the document is the  *)
(* work of the yaml library; the model keeps the text handed to it.        *)
(***************************************************************************)
YamlDictWith(m, headers, ye) ==
    IF ye.st # "ok" THEN ye
    ELSE [st |-> "ok", v |-> PySlice(m, Len(headers), ye.v)]

yaml_dict(m) == YamlDictWith(m, ReadLine(m, 0), yaml_end(m))

InSeq(x, s) == \E i \in 1..Len(s) : s[i] = x

GetItemYaml(self, key, yd) ==
    IF yd.st # "ok" THEN Raise(self, yd.st)
    ELSE Ok(self, [t |-> "yaml", text |-> yd.v, key |-> key])

GetItemWith(m, key, tn) ==
    IF tn.st # "ok" THEN tn
    ELSE IF InSeq(key, tn.v) THEN telemetry(tn.self, m, key)
    ELSE GetItemYaml(tn.self, key, yaml_dict(m))

getitem(self, m, key) == GetItemWith(m, key, telemetry_names(self, m))

(* API.keys: the keys of the parsed document, then the names; the sorted  *)
(* list is kept as the pair of its two sources                            *)
KeysNames(yd, tn) ==
    IF tn.st # "ok" THEN tn
    ELSE Ok(tn.self, [t |-> "keys", text |-> yd.v, names |-> tn.v])

KeysWith(self, m, yd) ==
    IF yd.st # "ok" THEN Raise(self, yd.st)
    ELSE KeysNames(yd, telemetry_names(self, m))

keys(self, m) == KeysWith(self, m, yaml_dict(m))

(* API._iracing_alive: any exception of the read counts as not alive *)
iracing_alive(m) == Read(m, 0, 1) = <<MEMMAPFILE_START>>

(***************************************************************************)
(* Synthetic regions.  An input describes what the producer laid out: a    *)
(* binary header, the session document ("---", ndoc lines, a terminator   *)
(* line), pad zero bytes, one 144-byte record per variable (type, offset, *)
(* count, name), an all-zero record, and three value buffers.  A bare      *)
(* region ends with its terminator line.                                   *)
(***************************************************************************)
Zeros(n) == [i \in 1..n |-> 0]

Byte(n, k) == (n \div (256 ^ k)) % 256

(* the four little-endian bytes of a 32-bit two's complement integer *)
Pack32(n) ==
    IF n >= 0 THEN [k \in 1..4 |-> Byte(n, k - 1)]
    ELSE [k \in 1..4 |-> 255 - Byte(-n - 1, k - 1)]

StoreAt(m, pos, bytes) ==
    SubSeq(m, 1, pos) \o bytes \o SubSeq(m, pos + Len(bytes) + 1, Len(m))

DocLine == <<97, 58, 32, 49, 10>>
DocStart == <<45, 45, 45, 10>>
TermPlain == <<46, 46, 46, 10>>
TermLead == <<32, 46, 46, 46, 10>>
TermTrail == <<46, 46, 46, 32, 32, 10>>
Terminators == {TermPlain, TermLead, TermTrail, <<>>}

RECURSIVE Repeat(_, _)
Repeat(s, n) == IF n = 0 THEN <<>> ELSE s \o Repeat(s, n - 1)

Speed == <<83, 112, 101, 101, 100>>
Bogus == <<66, 111, 103, 117, 115>>
NameOf(j) == IF j = 1 THEN Speed ELSE <<86, 48 + j>>

SlotLen == calcsize("d")
BinHeaderLen == 52 + (VAL_BUFFERS * 16) + 12

NVars(in) == Len(in.types)
Text(in) == DocStart \o Repeat(DocLine, in.ndoc) \o in.term
TableStart(in) == BinHeaderLen + Len(Text(in)) + in.pad
BufLen(in) == SlotLen * Max(NVars(in), 1)
BufStart(in) == TableStart(in) + (NVars(in) + 1) * HEADER_LEN
BufBase(in, i) == BufStart(in) + i * BufLen(in)
VarOffset(j) == SlotLen * (j - 1)

Record(type, offset, name) ==
    Pack32(type) \o Pack32(offset) \o Pack32(1) \o Zeros(4)
    \o name \o Zeros(TELEM_NAME_MAX_LEN - Len(name))
    \o Zeros(HEADER_LEN - TELEM_NAME_OFFSET - TELEM_NAME_MAX_LEN)

RECURSIVE Records(_, _)
Records(in, j) ==
    IF j > NVars(in) THEN Zeros(HEADER_LEN)
    ELSE Record(in.types[j], VarOffset(j), NameOf(j)) \o Records(in, j + 1)

BinHeader(in) ==
    LET h0 == StoreAt(Zeros(BinHeaderLen), 0, <<in.sentinel>>)
        h1 == StoreAt(h0, 28, Pack32(TableStart(in)))
        h2 == StoreAt(h1, 52, Pack32(BufBase(in, 0)))
        h3 == StoreAt(h2, 68, Pack32(BufBase(in, 1)))
    IN  StoreAt(h3, 84, Pack32(BufBase(in, 2)))

Region(in) ==
    IF in.bare THEN BinHeader(in) \o Text(in)
    ELSE BinHeader(in) \o Text(in) \o Zeros(in.pad) \o Records(in, 1)
         \o Zeros(VAL_BUFFERS * BufLen(in))

TypeSeqs(codes) == UNION {[1..n -> codes] : n \in 0..MaxVars}

(***************************************************************************)
(* State: the region, the private fields of the API object, and the        *)
(* outcome of the last call.  input is the layout the region was built     *)
(* from; fresh says that the region is as the last call saw it; scan is    *)
(* the position of a call of _yaml_end that is followed line by line.      *)
(***************************************************************************)
VARIABLES __mmp, input, constructed, __telemetry_names, __var_types, __var_offsets,
          __buffer_offsets, __sizes, call, fresh, writes, scan

caches == <<__telemetry_names, __var_types, __var_offsets, __buffer_offsets, __sizes>>
vars == <<__mmp, input, constructed, __telemetry_names, __var_types, __var_offsets,
          __buffer_offsets, __sizes, call, fresh, writes, scan>>

Self == [__telemetry_names |-> __telemetry_names, __var_types |-> __var_types,
         __var_offsets |-> __var_offsets, __buffer_offsets |-> __buffer_offsets,
         __sizes |-> __sizes]

CacheNames == {"__telemetry_names", "__var_types", "__var_offsets", "__buffer_offsets", "__sizes"}

NoCall == [op |-> "none", key |-> <<>>, st |-> "ok", v |-> NoneVal, resolved |-> {}]
ScanIdle == [pc |-> "idle", pos |-> 0, offset |-> 0, headers |-> <<>>,
             line |-> <<>>, eof |-> FALSE, result |-> 0]

SessionTypes ==
    {ts \in TypeSeqs(0..(Len(TYPEMAP) - 1)) :
        /\ Len(ts) >= 1
        /\ \A j \in 1..(Len(ts) - 1) : TYPEMAP[ts[j] + 1] = "f"}

SessionInputs ==
    {in \in [sentinel : {0, MEMMAPFILE_START}, ndoc : {MaxDocLines},
             term : {TermPlain}, pad : {MaxPad}, types : SessionTypes,
             bare : {FALSE}] : TRUE}

(* API.__init__: only the fields are set, and the sentinel is read once *)
Init ==
    /\ input \in SessionInputs
    /\ __mmp = Region(input)
    /\ constructed = FALSE
    /\ __telemetry_names = None
    /\ __var_types = None
    /\ __var_offsets = None
    /\ __buffer_offsets = None
    /\ __sizes = None
    /\ call = NoCall
    /\ fresh = FALSE
    /\ writes = 0
    /\ scan = ScanIdle

Construct ==
    /\ ~constructed
    /\ constructed' = iracing_alive(__mmp)
    /\ call' = [NoCall EXCEPT !.op = "init",
                              !.st = IF iracing_alive(__mmp) THEN "ok" ELSE "Exception"]
    /\ fresh' = TRUE
    /\ UNCHANGED <<__mmp, input, caches, writes, scan>>

(* a call of a method of the constructed object, with outcome r *)
Return(op, key, r) ==
    /\ constructed
    /\ call.st # "hang"
    /\ __telemetry_names' = r.self.__telemetry_names
    /\ __var_types' = r.self.__var_types
    /\ __var_offsets' = r.self.__var_offsets
    /\ __buffer_offsets' = r.self.__buffer_offsets
    /\ __sizes' = r.self.__sizes
    /\ call' = [op |-> op, key |-> key, st |-> r.st,
                v |-> IF r.st = "ok" THEN r.v ELSE NoneVal,
                resolved |-> {c \in CacheNames : Self[c].isNone /\ ~r.self[c].isNone}]
    /\ fresh' = TRUE
    /\ UNCHANGED <<__mmp, input, constructed, writes, scan>>

(* the keys a caller asks for: the laid out names, the names the object  *)
(* found, and a name that is nowhere                                      *)
KeyInputs ==
    {NameOf(j) : j \in 1..NVars(input)} \cup {Bogus}
    \cup (IF __telemetry_names.isNone THEN {}
          ELSE {__telemetry_names.v[i] : i \in 1..Len(__telemetry_names.v)})

Telemetry == \E key \in KeyInputs : Return("telemetry", key, telemetry(Self, __mmp, key))

GetItem == \E key \in KeyInputs : Return("getitem", key, getitem(Self, __mmp, key))

Keys == Return("keys", <<>>, keys(Self, __mmp))

(***************************************************************************)
(* The producer writes the region at any time between two calls; the       *)
(* outcome of the call before the write is then forgotten.                 *)
(***************************************************************************)
Write(m) ==
    /\ writes < MaxWrites
    /\ ~input.bare
    /\ m # __mmp
    /\ __mmp' = m
    /\ writes' = writes + 1
    /\ fresh' = FALSE
    /\ call' = IF call.st = "hang" THEN call ELSE NoCall
    /\ UNCHANGED <<input, constructed, caches, scan>>

(* the sample of each type that the producer stores at tick i *)
Sample(fmt, i) ==
    CASE fmt = "c" -> <<65 + i>>
      [] fmt = "?" -> <<1 + i>>
      [] fmt = "i" -> <<7 + i, 0, 0, 0>>
      [] fmt = "I" -> <<0, 1 + i, 0, 0>>
      [] fmt = "f" -> <<0, 0, 49 + i, 66>>
      [] fmt = "d" -> <<0, 0, 0, 0, 0, 63 + i, 70, 64>>

ProducerSentinel == \E b \in {0, MEMMAPFILE_START} : Write(StoreAt(__mmp, 0, <<b>>))

(* the variable the producer refreshes: the last one of the table *)
Live == NVars(input)

ProducerValue ==
    \E i \in 0..(VAL_BUFFERS - 1), zero \in BOOLEAN :
        LET fmt == TYPEMAP[input.types[Live] + 1]
            bytes == IF zero THEN Zeros(calcsize(fmt)) ELSE Sample(fmt, i)
        IN  Write(StoreAt(__mmp, BufBase(input, i) + VarOffset(Live), bytes))

(* a base past the end of the region, one that straddles it, a negative one *)
ProducerBufferBase ==
    \E base \in {Len(__mmp), Len(__mmp) - 2, -SlotLen} :
        Write(StoreAt(__mmp, 52, Pack32(base)))

ProducerTypeCode ==
    \E code \in {-1, Len(TYPEMAP)} :
        Write(StoreAt(__mmp, TableStart(input) + (Live - 1) * HEADER_LEN, Pack32(code)))

ProducerVarOffset ==
    Write(StoreAt(__mmp, TableStart(input) + (Live - 1) * HEADER_LEN + 4,
                  Pack32(VarOffset(Live) + 4)))

Producer ==
    \/ ProducerSentinel
    \/ ProducerValue
    \/ ProducerBufferBase
    \/ ProducerTypeCode
    \/ ProducerVarOffset

Next ==
    \/ Construct
    \/ Telemetry
    \/ GetItem
    \/ Keys
    \/ Producer

Spec == Init /\ [][Next]_vars

(***************************************************************************)
(* The layout scanner on its own: the region does not change, _yaml_end   *)
(* is followed one readline() at a time, and _telemetry_names is called.   *)
(***************************************************************************)
LayoutInputs ==
    {in \in [sentinel : {MEMMAPFILE_START}, ndoc : 0..MaxDocLines,
             term : Terminators, pad : 0..MaxPad,
             types : TypeSeqs(0..(Len(TYPEMAP) - 1)), bare : BOOLEAN] :
        in.bare => (in.pad = 0 /\ in.types = <<>>)}

LayoutInit ==
    /\ input \in LayoutInputs
    /\ __mmp = Region(input)
    /\ constructed = iracing_alive(__mmp)
    /\ __telemetry_names = None
    /\ __var_types = None
    /\ __var_offsets = None
    /\ __buffer_offsets = None
    /\ __sizes = None
    /\ call = NoCall
    /\ fresh = TRUE
    /\ writes = 0
    /\ scan = ScanIdle

Scan(next) ==
    /\ scan' = next
    /\ UNCHANGED <<__mmp, input, constructed, caches, call, fresh, writes>>

(* self._mmp.seek(0); offset = 0 *)
ScanSeek ==
    /\ scan.pc = "idle"
    /\ Scan([scan EXCEPT !.pc = "headers", !.pos = 0, !.offset = 0])

(* headers = self._mmp.readline() *)
ScanHeaders ==
    /\ scan.pc = "headers"
    /\ LET headers == ReadLine(__mmp, scan.pos)
       IN  Scan([scan EXCEPT !.pc = "loop", !.headers = headers,
                             !.pos = scan.pos + Len(headers)])

(* one turn of the while loop *)
ScanLine ==
    /\ scan.pc = "loop"
    /\ LET line == ReadLine(__mmp, scan.pos)
       IN  Scan([scan EXCEPT !.line = line,
                             !.eof = (line = <<>>),
                             !.pos = scan.pos + Len(line),
                             !.pc = IF Strip(line) = Dots THEN "return" ELSE "loop",
                             !.offset = IF Strip(line) = Dots THEN scan.offset
                                        ELSE scan.offset + Len(line)])

(* return offset + len(headers) + 4 *)
ScanReturn ==
    /\ scan.pc = "return"
    /\ Scan([scan EXCEPT !.pc = "done",
                         !.result = scan.offset + Len(scan.headers) + 4])

LayoutNames == Return("telemetry_names", <<>>, telemetry_names(Self, __mmp))

LayoutNext ==
    \/ ScanSeek
    \/ ScanHeaders
    \/ ScanLine
    \/ ScanReturn
    \/ LayoutNames

LayoutSpec == LayoutInit /\ [][LayoutNext]_vars

(* the line by line scan and yaml_end compute the same *)
ScanAgrees ==
    /\ scan.pc = "done" => yaml_end(__mmp) = [st |-> "ok", v |-> scan.result]
    /\ scan.eof => yaml_end(__mmp).st = "hang"

(***************************************************************************)
(* What the last call of telemetry(key) saw: the region is as the call     *)
(* left it, and the caches hold the offsets, bases and sizes it used.      *)
(***************************************************************************)
TelemetryCalled ==
    /\ fresh
    /\ call.op = "telemetry"
    /\ ~__var_offsets.isNone /\ call.key \in DOMAIN __var_offsets.v
    /\ ~__buffer_offsets.isNone
    /\ ~__sizes.isNone /\ call.key \in DOMAIN __sizes.v
    /\ ~__var_types.isNone /\ call.key \in DOMAIN __var_types.v

SliceStart(i) == __var_offsets.v[call.key] + __buffer_offsets.v[i]
Width == __sizes.v[call.key]
InRegion(i) == SliceStart(i) >= 0 /\ SliceStart(i) + Width <= Len(__mmp)
SliceBytes(i) == [p \in 1..Width |-> __mmp[SliceStart(i) + p]]
AllZero(i) == \A p \in 1..Width : __mmp[SliceStart(i) + p] = 0
Buffers == 1..VAL_BUFFERS
NonZeroBuffers == {i \in Buffers : InRegion(i) /\ ~AllZero(i)}
FirstNonZero == CHOOSE i \in NonZeroBuffers : \A k \in NonZeroBuffers : i <= k
Examined == IF NonZeroBuffers = {} THEN Buffers ELSE 1..FirstNonZero

(* C1: telemetry(key) returns the decoded slice of the lowest-indexed      *)
(* buffer whose width(type) bytes at base + offset are not all zero; an    *)
(* all-zero buffer is skipped (and None is returned when all are zero).    *)
C1_FirstNonZeroBuffer ==
    (TelemetryCalled /\ \A i \in Examined : InRegion(i)) =>
        /\ call.st = "ok"
        /\ call.v = IF NonZeroBuffers = {} THEN NoneVal
                    ELSE Unpack(__var_types.v[call.key], SliceBytes(FirstNonZero))

(* Speed is a Float32, buffers 0 and 2 are zero, buffer 1 holds 44.5 *)
C1_Witness ==
    /\ TelemetryCalled
    /\ call.key = Speed
    /\ __var_types.v[Speed] = "f"
    /\ \A i \in Buffers : InRegion(i)
    /\ AllZero(1) /\ ~AllZero(2) /\ AllZero(3)
    /\ call.v = [t |-> "float", sign |-> 0, exp |-> 132, frac |-> <<3276800>>]

(* C2: when the sentinel byte is not the alive marker, a call of           *)
(* telemetry fails (with Disconnected) and returns no decoded value.       *)
C2_DisconnectedWhenSentinelAbsent ==
    (fresh /\ call.op = "telemetry" /\ __mmp[1] # MEMMAPFILE_START)
        => ~(call.st = "ok" /\ call.v # NoneVal)

(* C3: when the bytes of the variable in all three buffers are zero,       *)
(* telemetry returns None, which no decoded value equals, and raises       *)
(* nothing.                                                                *)
ZeroInRegion(i) ==
    \A p \in 1..Width : SliceStart(i) + p <= Len(__mmp) => __mmp[SliceStart(i) + p] = 0

C3_AllZeroIsUnknown ==
    /\ \A k \in 1..Len(TYPEMAP) :
          Unpack(TYPEMAP[k], Zeros(calcsize(TYPEMAP[k]))) # NoneVal
    /\ (TelemetryCalled /\ \A i \in Buffers : SliceStart(i) >= 0 /\ ZeroInRegion(i))
          => (call.st = "ok" /\ call.v = NoneVal)

C3_Witness ==
    /\ TelemetryCalled
    /\ \A i \in Buffers : InRegion(i) /\ AllZero(i)
    /\ call.st = "ok"
    /\ call.v = NoneVal

(* C5: when the buffers hold the encoding of a value v of the variable's   *)
(* type, zero included, telemetry returns v.                               *)
C5_RoundTrip ==
    (TelemetryCalled /\ \A i \in Buffers : InRegion(i) /\ SliceBytes(i) = SliceBytes(1))
        => (call.st = "ok" /\ call.v = Unpack(__var_types.v[call.key], SliceBytes(1)))

(* C6: when the type code of a record is outside 0..5 the resolution of    *)
(* the types fails, and no variable gets a type from such a code.          *)
TypeCode(j) ==
    Unpack("i", SubSeq(__mmp, TableStart(input) + (j - 1) * HEADER_LEN + 1,
                       TableStart(input) + (j - 1) * HEADER_LEN + 4)).i
InEnum(code) == code \in 0..(Len(TYPEMAP) - 1)

C6_TypeCodeInEnum ==
    (fresh /\ "__var_types" \in call.resolved) =>
        /\ (\E j \in 1..NVars(input) : ~InEnum(TypeCode(j))) => call.st # "ok"
        /\ \A j \in 1..NVars(input) :
              NameOf(j) \in DOMAIN __var_types.v => InEnum(TypeCode(j))

(* C8: when the slice of the first buffer lies outside the region,         *)
(* telemetry fails instead of returning.                                   *)
C8_OutOfBoundsFails ==
    (TelemetryCalled /\ ~InRegion(1)) => call.st # "ok"

(* C10: a cache that has been filled never changes, whatever the producer  *)
(* writes afterwards and whatever is called.                               *)
C10_CachesFrozen ==
    [][\A c \in CacheNames : ~Self[c].isNone => Self'[c] = Self[c]]_vars

(* a call after the producer moved a buffer base that was already cached *)
C10_Witness ==
    /\ fresh
    /\ call.op = "telemetry"
    /\ ~__buffer_offsets.isNone
    /\ "__buffer_offsets" \notin call.resolved
    /\ Unpack("i", SubSeq(__mmp, 53, 56)).i # __buffer_offsets.v[1]

(***************************************************************************)
(* The layout scanner.                                                     *)
(***************************************************************************)
WellFormedTable == ~input.bare /\ input.term = TermPlain

(* C4: N well-formed records and an empty one, behind zero padding at the  *)
(* boundary, give the N names in record order.                             *)
C4_ParserReturnsRecords ==
    (call.op = "telemetry_names" /\ WellFormedTable) =>
        /\ call.st = "ok"
        /\ call.v = [j \in 1..NVars(input) |-> NameOf(j)]

(* C7: at the physical end of a region without terminator the scan stops   *)
(* and fails with MalformedRegion.                                         *)
C7_ScanFailsAtRegionEnd == scan.eof => scan.pc = "MalformedRegion"

(* C9: with a terminator line the boundary is len(header line) + the       *)
(* lengths of the document lines + 4, inside the region, and at or past    *)
(* the last byte of the terminator line.                                   *)
HeaderLineLen == BinHeaderLen + Len(DocStart)
DocLen == input.ndoc * Len(DocLine)

C9_BoundaryPastTerminator ==
    (scan.pc = "done" /\ Strip(input.term) = Dots) =>
        /\ scan.result = HeaderLineLen + DocLen + 4
        /\ scan.result > 0
        /\ scan.result < Len(__mmp)
        /\ scan.result >= HeaderLineLen + DocLen + Len(input.term) - 1

====
